---- MODULE Spec2Model ----
(***************************************************************************)
(* Model of src/background-main.js: the MobileDesktopPairings store, the   *)
(* session state of the background page, its host event listeners     and  *)
(* the asynchronous host calls they make.                                  *)
(*                                                                         *)
(* The host runtime (chrome) is modelled   at its interface: it owns the   *)
(* open tabs, hands out identifiers, completes asynchronous calls at any   *)
(* later moment and delivers the events that programmatic commands cause   *)
(* at any later moment.                                                    *)
(***************************************************************************)
EXTENDS Integers, Sequences, FiniteSets, TLC

VARIABLES
    keyedByDesktop,      \* this._keyedByDesktop : desktop tab id -> mobile tab id
    keyedByMobile,       \* this._keyedByMobile  : mobile tab id  -> desktop tab id
    desktopWindowId,     \* let desktopWindowId
    mobileWindowId,      \* let mobileWindowId
    newTabBeingCreated,  \* let newTabBeingCreated
    focusedWindowId,     \* let focusedWindowId
    listeners,           \* browser-action clicks so far: each registers an onMessage and
                         \* an onBeforeSendHeaders listener
    tabs,                \* host: open tab id -> id of its window
    nextId,              \* host: next identifier to hand out (tabs and windows share it)
    calls,               \* host: asynchronous calls whose callback has not run yet
    pendingEvents,       \* host: events fired but not yet delivered to the listeners
    last,                \* the event or call the latest step handled
    cmds                 \* the host commands the latest step issued, in order

vars == <<keyedByDesktop, keyedByMobile, desktopWindowId, mobileWindowId,
          newTabBeingCreated, focusedWindowId, listeners, tabs, nextId,
          calls, pendingEvents, last, cmds>>

storeVars == <<keyedByDesktop, keyedByMobile>>
sessionVars == <<desktopWindowId, mobileWindowId, newTabBeingCreated, focusedWindowId>>
hostVars == <<tabs, nextId, calls, pendingEvents>>

-----------------------------------------------------------------------------
(* Bounds of the model *)

\* identifiers the host hands out (windows and tabs together)
MaxId == 6
\* browser-action clicks
MaxClicks == 2
\* events fired and not yet delivered
MaxPending == 2
\* asynchronous calls in flight
MaxCalls == 2
\* browser-action clicks when tab navigation is followed
MaxNavClicks == 1
\* browser-action clicks when progress of the callbacks is followed
MaxLiveClicks == 1
\* largest identifier used when the store is exercised on its own
MaxStoreId == 2

-----------------------------------------------------------------------------
(* JavaScript values *)

\* void(0): the value of an unset variable or of a missing object property
Undefined == -1
\* the literal false that getCorrespondingTab returns for an unknown id
FalseValue == -2

\* JavaScript truthiness of a number, undefined or false
Truthy(v) == v # Undefined /\ v # FalseValue /\ v # 0

\* a || b
Or(a, b) == IF Truthy(a) THEN a ELSE b

\* stands for any value that is not an integer (1.5, "7", null)
NonInteger == -3

\* Number.isInteger on the values of this model
NumberIsInteger(v) == v \in Int /\ v \notin {Undefined, FalseValue, NonInteger}

\* {} : an object without properties
EmptyObject == [k \in {} |-> Undefined]

\* obj[k], undefined when the property is missing
Get(obj, k) == IF k \in DOMAIN obj THEN obj[k] ELSE Undefined

\* obj[k] = v
Put(obj, k, v) == [x \in DOMAIN obj \cup {k} |-> IF x = k THEN v ELSE obj[x]]

\* delete obj[k]
Delete(obj, k) == [x \in DOMAIN obj \ {k} |-> obj[x]]

-----------------------------------------------------------------------------
(* class MobileDesktopPairings; a store is the record [d |-> _keyedByDesktop, *)
(* m |-> _keyedByMobile]                                                      *)

Store(kd, km) == [d |-> kd, m |-> km]

tabPairs == Store(keyedByDesktop, keyedByMobile)

\* addPair throws for a non-integer argument
addPairThrows(desktopTabId, mobileTabId) ==
    ~NumberIsInteger(desktopTabId) \/ ~NumberIsInteger(mobileTabId)

\* addPair without the integer check
addPair_NoCheck(st, desktopTabId, mobileTabId) ==
    Store(Put(st.d, desktopTabId, mobileTabId), Put(st.m, mobileTabId, desktopTabId))

addPair(st, desktopTabId, mobileTabId) ==
    IF addPairThrows(desktopTabId, mobileTabId)
    THEN st
    ELSE Store(Put(st.d, desktopTabId, mobileTabId), Put(st.m, mobileTabId, desktopTabId))

getCorrespondingTab(st, tabId) ==
    Or(Get(st.d, tabId), Or(Get(st.m, tabId), FalseValue))

contains(st, tabId) == Truthy(getCorrespondingTab(st, tabId))

removeTabPair(st, eitherTabId) ==
    Store(Delete(st.d, eitherTabId), Delete(st.m, eitherTabId))

\* clearPairings that forgets the mobile-keyed direction
clearPairings_DesktopOnly(st) == Store(EmptyObject, st.m)

clearPairings(st) == Store(EmptyObject, EmptyObject)

isDesktopTab(st, tabId) == Truthy(Get(st.d, tabId))

SetStore(st) ==
    /\ keyedByDesktop' = st.d
    /\ keyedByMobile' = st.m

-----------------------------------------------------------------------------
(* The host runtime: tabs, windows, events, asynchronous calls *)

\* URLs a user types
URLS == {"https://x.com"}
\* the URL of a tab that chrome.tabs.create opens without a url
NewTabUrl == "chrome://newtab/"
NoUrl == ""

\* getScrollLock()
ScrollLocks == {"on", "off"}

\* an event; by names what caused it: "user", or the function of the program
\* whose command made the host fire it
Ev(type, tab, win, url, by) ==
    [type |-> type, tab |-> tab, win |-> win, url |-> url, by |-> by]

Call(op, win, tab, prog, url, side) ==
    [op |-> op, win |-> win, tab |-> tab, prog |-> prog, url |-> url, side |-> side]

Cmd(cmd, tab, win, url) == [cmd |-> cmd, tab |-> tab, win |-> win, url |-> url]

OpenTabs == DOMAIN tabs
WindowsOf(tb) == {tb[t] : t \in DOMAIN tb}
OpenWindows == WindowsOf(tabs)
TabsIn(tb, w) == {t \in DOMAIN tb : tb[t] = w}

\* the host closes the open tabs among ts; a window closes with its last tab
HostRemoveTabs(tb, ts) == [t \in DOMAIN tb \ ts |-> tb[t]]

\* the events the host fires for closing the tabs ts
RemovalEvents(tb, ts, by) ==
    {Ev("tabs.onRemoved", t, tb[t], NoUrl, by) : t \in ts \cap DOMAIN tb}
    \cup {Ev("windows.onRemoved", Undefined, w, NoUrl, by) :
            w \in WindowsOf(tb) \ WindowsOf(HostRemoveTabs(tb, ts))}

\* the host navigates tab t to url when t is open and fires tabs.onUpdated with
\* changeInfo.url (the URL a tab shows is the host's and is not tracked)
HostNavigates(tb, t) == t \in DOMAIN tb
NavigationEvents(tb, t, url, by) ==
    IF HostNavigates(tb, t)
    THEN {Ev("tabs.onUpdated", t, tb[t], url, by)}
    ELSE {}

\* the bounds on what is in flight
Fits(pend) == Cardinality(pend) <= MaxPending
CallsFit(cs) == Cardinality(cs) <= MaxCalls

\* programmatic tab creations whose final callback has not run yet
CreationsInProgress == {c \in calls : c.op \in {"tabs.create", "tabs.update"}}

\* the browser as the extension finds it: one window (1) with one tab (2)
InitialTabs == Put(EmptyObject, 2, 1)

Init ==
    /\ keyedByDesktop = EmptyObject
    /\ keyedByMobile = EmptyObject
    /\ desktopWindowId = Undefined
    /\ mobileWindowId = Undefined
    /\ newTabBeingCreated = FALSE
    /\ focusedWindowId = Undefined
    /\ listeners = 0
    /\ tabs = InitialTabs
    /\ nextId = 3
    /\ calls = {}
    /\ pendingEvents = {}
    /\ last = Ev("load", Undefined, Undefined, NoUrl, "host")
    /\ cmds = << >>

-----------------------------------------------------------------------------
(* The listeners. Each takes the event e and the host's tabs tb and pending  *)
(* events pend as they are when the listener starts.                         *)

\* chrome.tabs.onCreated listener
OnCreated(e, tb, pend) ==
    /\ last' = e
    /\ tabs' = tb
    /\ pendingEvents' = pend
    /\ UNCHANGED <<storeVars, desktopWindowId, mobileWindowId, focusedWindowId>>
    /\ IF ~newTabBeingCreated /\ e.win = desktopWindowId
       THEN /\ newTabBeingCreated' = TRUE
            /\ calls' = calls \cup
                 {Call("tabs.create", mobileWindowId, e.tab, Undefined, e.url, "desktop")}
            /\ cmds' = <<Cmd("tabs.create", Undefined, mobileWindowId, NoUrl)>>
       ELSE IF ~newTabBeingCreated /\ e.win = mobileWindowId
       THEN /\ newTabBeingCreated' = TRUE
            /\ calls' = calls \cup
                 {Call("tabs.create", desktopWindowId, e.tab, Undefined, e.url, "mobile")}
            /\ cmds' = <<Cmd("tabs.create", Undefined, desktopWindowId, NoUrl)>>
       ELSE /\ UNCHANGED <<newTabBeingCreated, calls>>
            /\ cmds' = << >>

\* chrome.tabs.onRemoved listener
OnRemoved(e, tb, pend) ==
    LET correspondingTab == getCorrespondingTab(tabPairs, e.tab) IN
    /\ last' = e
    /\ UNCHANGED <<sessionVars, calls>>
    /\ IF Truthy(correspondingTab)
       THEN /\ SetStore(removeTabPair(tabPairs, e.tab))
            /\ cmds' = <<Cmd("tabs.remove", correspondingTab, Undefined, NoUrl)>>
            /\ tabs' = HostRemoveTabs(tb, {correspondingTab})
            /\ pendingEvents' = pend \cup RemovalEvents(tb, {correspondingTab}, "onRemoved")
       ELSE /\ UNCHANGED storeVars
            /\ cmds' = << >>
            /\ tabs' = tb
            /\ pendingEvents' = pend

\* the tab-activated condition that forgets the mobile window
ActivationMirrored_DesktopOnly(correspondingTab, windowId) ==
    /\ Truthy(correspondingTab)
    /\ windowId = desktopWindowId

\* the condition under which the tab-activated listener selects the paired tab
ActivationMirrored(correspondingTab, windowId) ==
    /\ Truthy(correspondingTab)
    /\ (windowId = desktopWindowId \/ windowId = mobileWindowId)

\* chrome.tabs.onActivated listener
OnActivated(e, tb, pend) ==
    LET correspondingTab == getCorrespondingTab(tabPairs, e.tab) IN
    /\ last' = e
    /\ tabs' = tb
    /\ pendingEvents' = pend
    /\ UNCHANGED <<storeVars, sessionVars, calls>>
    /\ cmds' = IF ActivationMirrored(correspondingTab, e.win)
               THEN <<Cmd("tabs.update.selected", correspondingTab, Undefined, NoUrl)>>
               ELSE << >>

\* chrome.windows.onFocusChanged listener
OnFocusChanged(e, tb, pend) ==
    /\ last' = e
    /\ tabs' = tb
    /\ pendingEvents' = pend
    /\ focusedWindowId' = e.win
    /\ cmds' = << >>
    /\ UNCHANGED <<storeVars, desktopWindowId, mobileWindowId, newTabBeingCreated, calls>>

\* chrome.tabs.onUpdated listener
OnUpdated(e, tb, pend) ==
    LET correspondingTab == getCorrespondingTab(tabPairs, e.tab) IN
    /\ last' = e
    /\ UNCHANGED <<storeVars, sessionVars, calls>>
    /\ IF e.url # NoUrl /\ Truthy(correspondingTab) /\ e.win = focusedWindowId
       THEN /\ cmds' = <<Cmd("tabs.update.url", correspondingTab, Undefined, e.url)>>
            /\ tabs' = tb
            /\ pendingEvents' = pend \cup NavigationEvents(tb, correspondingTab, e.url, "onUpdated")
       ELSE /\ cmds' = << >>
            /\ tabs' = tb
            /\ pendingEvents' = pend

\* chrome.windows.onRemoved listener
OnWindowRemoved(e, tb, pend) ==
    /\ last' = e
    /\ tabs' = tb
    /\ pendingEvents' = pend
    /\ cmds' = << >>
    /\ UNCHANGED calls
    /\ IF e.win = mobileWindowId
       THEN /\ SetStore(clearPairings(tabPairs))
            /\ desktopWindowId' = Undefined
            /\ mobileWindowId' = Undefined
            /\ newTabBeingCreated' = FALSE
            /\ focusedWindowId' = Undefined
       ELSE UNCHANGED <<storeVars, sessionVars>>

-----------------------------------------------------------------------------
(* The session bootstrap: createMirroredWindow and mirrorDesktopWindow.      *)
(* chrome.windows.getCurrent and chrome.tabs.query only read the host's      *)
(* state and their callbacks touch no state of the program, so each is taken *)
(* in the step that issues it. The user may have selected any tab before, so *)
(* any tab of the window may be its active tab, with any URL.                *)

\* mirrorDesktopWindow up to its chrome.windows.create call: resizes the desktop
\* window, marks it focused and asks for the mobile window with the URL of the
\* desktop window's active tab; cs are the calls still pending
mirrorDesktopWindow(desktopWindow, desktopActiveTab, url, cs) ==
    /\ focusedWindowId' = desktopWindow
    /\ calls' = cs \cup
         {Call("windows.create", desktopWindow, desktopActiveTab, Undefined, url, "mobile")}
    /\ cmds' = <<Cmd("windows.update", Undefined, desktopWindow, NoUrl),
                 Cmd("windows.create", Undefined, Undefined, url)>>

\* chrome.browserAction.onClicked in window w with getStartSession() other than
\* "new": createMirroredWindow registers its two listeners and mirrors w
ClickReuse ==
    \E w \in OpenWindows :
      \E desktopActiveTab \in TabsIn(tabs, w), url \in URLS :
        /\ listeners < MaxClicks
        /\ listeners' = listeners + 1
        /\ last' = Ev("browserAction.onClicked", Undefined, w, NoUrl, "user")
        /\ mirrorDesktopWindow(w, desktopActiveTab, url, calls)
        /\ UNCHANGED <<storeVars, desktopWindowId, mobileWindowId, newTabBeingCreated,
                       tabs, nextId, pendingEvents>>

\* chrome.browserAction.onClicked in window w with getStartSession() = "new":
\* createMirroredWindow registers its two listeners and asks for a new window
\* with the URL of the active tab of w
ClickNew ==
    \E w \in OpenWindows, url \in URLS :
        /\ listeners < MaxClicks
        /\ listeners' = listeners + 1
        /\ calls' = calls \cup
             {Call("windows.create", Undefined, Undefined, Undefined, url, "new")}
        /\ last' = Ev("browserAction.onClicked", Undefined, w, NoUrl, "user")
        /\ cmds' = <<Cmd("windows.create", Undefined, Undefined, url)>>
        /\ UNCHANGED <<storeVars, sessionVars, tabs, nextId, pendingEvents>>

\* callback of chrome.windows.create in createMirroredWindow: the host has opened
\* the new desktop window with one tab, which mirrorDesktopWindow mirrors
NewWindowDone ==
    \E c \in calls :
        /\ c.op = "windows.create" /\ c.side = "new"
        /\ nextId + 1 <= MaxId
        /\ LET newWindow == nextId
               newTab == nextId + 1
           IN /\ tabs' = Put(tabs, newTab, newWindow)
              /\ pendingEvents' = pendingEvents \cup
                    {Ev("tabs.onCreated", newTab, newWindow, c.url, "createMirroredWindow")}
              /\ mirrorDesktopWindow(newWindow, newTab, c.url, calls \ {c})
        /\ last' = Ev("cb.windows.create", Undefined, Undefined, NoUrl, "host")
        /\ nextId' = nextId + 2
        /\ UNCHANGED <<storeVars, desktopWindowId, mobileWindowId, newTabBeingCreated,
                       listeners>>

\* callback of chrome.windows.create in mirrorDesktopWindow: the host has opened
\* the mobile window with one tab; the first pair and the window ids are recorded
MobileWindowDone ==
    \E c \in calls :
        /\ c.op = "windows.create" /\ c.side = "mobile"
        /\ nextId + 1 <= MaxId
        /\ LET mobileWindow == nextId
               mobileTab == nextId + 1
           IN /\ tabs' = Put(tabs, mobileTab, mobileWindow)
              /\ pendingEvents' = pendingEvents \cup
                    {Ev("tabs.onCreated", mobileTab, mobileWindow, c.url, "mirrorDesktopWindow")}
              /\ last' = Ev("cb.mirror.windows.create", Undefined, Undefined, NoUrl, "host")
              /\ SetStore(addPair(tabPairs, c.tab, mobileTab))
              /\ desktopWindowId' = c.win
              /\ mobileWindowId' = mobileWindow
        /\ nextId' = nextId + 2
        /\ calls' = calls \ {c}
        /\ cmds' = << >>
        /\ UNCHANGED <<newTabBeingCreated, focusedWindowId, listeners>>

-----------------------------------------------------------------------------
(* The callbacks of the tab-created listener *)

\* callback of chrome.tabs.create: the host has opened the programmatic tab (in
\* the current window when windowId is undefined) and the callback asks for its
\* URL to be set
TabsCreateDone ==
    \E c \in calls :
        /\ c.op = "tabs.create"
        /\ \E w \in (IF c.win = Undefined THEN OpenWindows ELSE {c.win} \cap OpenWindows) :
            /\ nextId <= MaxId
            /\ LET newProgrammaticTab == nextId
               IN /\ tabs' = Put(tabs, newProgrammaticTab, w)
                  /\ pendingEvents' = pendingEvents \cup
                        {Ev("tabs.onCreated", newProgrammaticTab, w, NewTabUrl, "onCreated")}
                  /\ calls' = (calls \ {c}) \cup
                        {Call("tabs.update", w, c.tab, newProgrammaticTab, c.url, c.side)}
                  /\ last' = Ev("cb.tabs.create", Undefined, Undefined, NoUrl, "host")
                  /\ cmds' = <<Cmd("tabs.update.url", newProgrammaticTab, Undefined, c.url)>>
            /\ nextId' = nextId + 1
        /\ UNCHANGED <<storeVars, sessionVars, listeners>>

\* callback of chrome.tabs.create when the host could not open the tab (its
\* window is gone): newProgrammaticTab is undefined and reading its id throws
TabsCreateFailed ==
    \E c \in calls :
        /\ c.op = "tabs.create"
        /\ c.win # Undefined
        /\ c.win \notin OpenWindows
        /\ calls' = calls \ {c}
        /\ last' = Ev("cb.tabs.create.failed", Undefined, Undefined, NoUrl, "host")
        /\ cmds' = << >>
        /\ UNCHANGED <<storeVars, sessionVars, tabs, nextId, listeners, pendingEvents>>

\* callback of chrome.tabs.update: the host has set the programmatic tab's URL
\* (when the tab is still open); the pair is recorded and the guard cleared
TabsUpdateDone ==
    \E c \in calls :
        /\ c.op = "tabs.update"
        /\ tabs' = tabs
        /\ pendingEvents' = pendingEvents \cup NavigationEvents(tabs, c.prog, c.url, "onCreated")
        /\ SetStore(IF c.side = "desktop"
                    THEN addPair(tabPairs, c.tab, c.prog)
                    ELSE addPair(tabPairs, c.prog, c.tab))
        /\ newTabBeingCreated' = FALSE
        /\ calls' = calls \ {c}
        /\ last' = Ev("cb.tabs.update", Undefined, Undefined, NoUrl, "host")
        /\ cmds' = << >>
        /\ UNCHANGED <<desktopWindowId, mobileWindowId, focusedWindowId, nextId, listeners>>

-----------------------------------------------------------------------------
(* The user and the delivery of events *)

\* the user opens a tab with URL u in window w
UserCreatesTab ==
    \E w \in OpenWindows, u \in URLS :
        /\ nextId <= MaxId
        /\ OnCreated(Ev("tabs.onCreated", nextId, w, u, "user"),
                     Put(tabs, nextId, w), pendingEvents)
        /\ nextId' = nextId + 1
        /\ UNCHANGED listeners

\* the user closes tab t; its window closes with its last tab
UserClosesTab ==
    \E t \in OpenTabs :
        /\ OnRemoved(Ev("tabs.onRemoved", t, tabs[t], NoUrl, "user"),
                     HostRemoveTabs(tabs, {t}),
                     pendingEvents \cup {e \in RemovalEvents(tabs, {t}, "user") :
                                            e.type = "windows.onRemoved"})
        /\ UNCHANGED <<nextId, listeners>>

\* the user closes window w with all its tabs
UserClosesWindow ==
    \E w \in OpenWindows :
        /\ tabs' = HostRemoveTabs(tabs, TabsIn(tabs, w))
        /\ pendingEvents' = pendingEvents \cup RemovalEvents(tabs, TabsIn(tabs, w), "user")
        /\ last' = Ev("user.closeWindow", Undefined, w, NoUrl, "user")
        /\ cmds' = << >>
        /\ UNCHANGED <<storeVars, sessionVars, nextId, listeners, calls>>

\* the user selects tab t
UserActivatesTab ==
    \E t \in OpenTabs :
        /\ OnActivated(Ev("tabs.onActivated", t, tabs[t], NoUrl, "user"), tabs, pendingEvents)
        /\ UNCHANGED <<nextId, listeners>>

\* the user navigates tab t to URL u
UserNavigates ==
    \E t \in OpenTabs, u \in URLS :
        /\ OnUpdated(Ev("tabs.onUpdated", t, tabs[t], u, "user"), tabs, pendingEvents)
        /\ UNCHANGED <<nextId, listeners>>

\* the user gives window w the input focus
UserFocusesWindow ==
    \E w \in OpenWindows :
        /\ OnFocusChanged(Ev("windows.onFocusChanged", Undefined, w, NoUrl, "user"),
                          tabs, pendingEvents)
        /\ UNCHANGED <<nextId, listeners>>

\* message.scrollPercentage of a content-script message: absent, or a percentage
ScrollPercentages == {Undefined, 50}

\* what one onMessage listener (registered by createMirroredWindow) does with a
\* message from tab t
RelayMessage(st, t, scrollPercentage, scrollLock) ==
    LET correspondingTabId == getCorrespondingTab(st, t) IN
    IF ~(Truthy(scrollPercentage) /\ scrollLock # "on") /\ Truthy(correspondingTabId)
    THEN <<Cmd("tabs.sendMessage", correspondingTabId, Undefined, NoUrl)>>
    ELSE << >>

\* n listeners run one after the other
RECURSIVE Repeat(_, _)
Repeat(n, out) == IF n = 0 THEN << >> ELSE out \o Repeat(n - 1, out)

Message(t, scrollPercentage, scrollLock) ==
    [type |-> "runtime.onMessage", tab |-> t, scrollPercentage |-> scrollPercentage,
     scrollLock |-> scrollLock]

\* the content script of tab t sends a message; every registered onMessage
\* listener handles it
ContentMessage ==
    \E t \in OpenTabs, scrollPercentage \in ScrollPercentages, scrollLock \in ScrollLocks :
        /\ listeners > 0
        /\ last' = Message(t, scrollPercentage, scrollLock)
        /\ cmds' = Repeat(listeners, RelayMessage(tabPairs, t, scrollPercentage, scrollLock))
        /\ UNCHANGED <<storeVars, sessionVars, listeners, hostVars>>

\* the device profile's user-agent string, and the browser's own
DeviceUA == "device.ua"
BrowserUA == "browser.ua"

\* a header rewriter that does not tell the desktop side from the mobile side
RewriteHeaders_AnyPairedTab(st, t, ua) == IF contains(st, t) THEN DeviceUA ELSE ua

\* what one onBeforeSendHeaders listener returns as the User-Agent of a request
\* of tab t that arrives with User-Agent ua
RewriteHeaders(st, t, ua) ==
    LET isMobilePage == contains(st, t) /\ ~isDesktopTab(st, t) IN
    IF isMobilePage THEN DeviceUA ELSE ua

\* tab t sends a request; every registered onBeforeSendHeaders listener sees it
BeforeSendHeaders ==
    \E t \in OpenTabs :
        /\ listeners > 0
        /\ last' = Ev("webRequest.onBeforeSendHeaders", t, tabs[t], NoUrl, "user")
        /\ cmds' = Repeat(listeners,
                     <<Cmd("requestHeaders", t, Undefined, RewriteHeaders(tabPairs, t, BrowserUA))>>)
        /\ UNCHANGED <<storeVars, sessionVars, listeners, hostVars>>

\* the host delivers a pending event to its listener
DeliverCreated ==
    \E e \in pendingEvents :
        /\ e.type = "tabs.onCreated"
        /\ OnCreated(e, tabs, pendingEvents \ {e})
        /\ UNCHANGED <<nextId, listeners>>

DeliverRemoved ==
    \E e \in pendingEvents :
        /\ e.type = "tabs.onRemoved"
        /\ OnRemoved(e, tabs, pendingEvents \ {e})
        /\ UNCHANGED <<nextId, listeners>>

DeliverUpdated ==
    \E e \in pendingEvents :
        /\ e.type = "tabs.onUpdated"
        /\ OnUpdated(e, tabs, pendingEvents \ {e})
        /\ UNCHANGED <<nextId, listeners>>

DeliverWindowRemoved ==
    \E e \in pendingEvents :
        /\ e.type = "windows.onRemoved"
        /\ OnWindowRemoved(e, tabs, pendingEvents \ {e})
        /\ UNCHANGED <<nextId, listeners>>

\* what is in flight stays within the bounds; the events of one closing window
\* are fired together, whatever is pending, and while more than MaxPending events
\* are pending the only steps are deliveries that shorten the backlog
InBounds ==
    /\ Fits(pendingEvents') \/ (pendingEvents' \subseteq pendingEvents /\ pendingEvents' # pendingEvents)
    /\ CallsFit(calls')

\* the steps that can change the pairing store or the session state's window ids
\* and guard
NextSession ==
    \/ ClickReuse /\ InBounds
    \/ ClickNew /\ InBounds
    \/ NewWindowDone /\ InBounds
    \/ MobileWindowDone /\ InBounds
    \/ TabsCreateDone /\ InBounds
    \/ TabsCreateFailed /\ InBounds
    \/ TabsUpdateDone /\ InBounds
    \/ UserCreatesTab /\ InBounds
    \/ UserClosesTab /\ InBounds
    \/ UserClosesWindow
    \/ DeliverCreated /\ InBounds
    \/ DeliverRemoved /\ InBounds
    \/ DeliverWindowRemoved /\ InBounds
    \/ DeliverUpdated /\ InBounds

\* The listeners for tab activation, tab navigation, content messages and
\* requests write no state of the program: they only command the host. Each is
\* therefore put together with NextSession (every step that writes the store,
\* the window ids or the guard) in a specification of its own.

\* the synchronizer with tab activation
Next ==
    \/ NextSession
    \/ UserActivatesTab /\ InBounds

Spec == Init /\ [][Next]_vars

\* the synchronizer with tab navigation and window focus, in sessions that at
\* most MaxNavClicks browser-action clicks start
NextNav ==
    \/ NextSession /\ listeners' <= MaxNavClicks
    \/ UserFocusesWindow /\ InBounds
    \/ UserNavigates /\ InBounds

SpecNav == Init /\ [][NextNav]_vars

\* the synchronizer with the content-message relay and the request rewriter,
\* with never more than MaxPending events pending
NextIO ==
    \/ NextSession /\ Fits(pendingEvents')
    \/ ContentMessage /\ InBounds
    \/ BeforeSendHeaders /\ InBounds

SpecIO == Init /\ [][NextIO]_vars

\* the synchronizer when the host invokes every callback it owes: a callback
\* that can run does run and a fired event is delivered to its listener,
\* whatever the user does or does not do
NextLive == NextSession /\ Fits(pendingEvents') /\ listeners' <= MaxLiveClicks

CallbacksInvoked ==
    /\ WF_vars(NewWindowDone)
    /\ WF_vars(MobileWindowDone)
    /\ WF_vars(TabsCreateDone)
    /\ WF_vars(TabsCreateFailed)
    /\ WF_vars(TabsUpdateDone)
    /\ WF_vars(DeliverCreated)
    /\ WF_vars(DeliverRemoved)
    /\ WF_vars(DeliverUpdated)
    /\ WF_vars(DeliverWindowRemoved)

SpecLive == Init /\ [][NextLive]_vars /\ CallbacksInvoked

-----------------------------------------------------------------------------
(* The pairing store on its own: any sequence of calls of its mutators *)

StoreIds == 0..MaxStoreId
StoreValues == StoreIds \cup {Undefined, NonInteger}

StoreCall(type, a, b, threw) == [type |-> type, a |-> a, b |-> b, threw |-> threw]

AddPairCall ==
    \E a \in StoreValues, b \in StoreValues :
        /\ SetStore(addPair(tabPairs, a, b))
        /\ last' = StoreCall("addPair", a, b, addPairThrows(a, b))
        /\ UNCHANGED <<sessionVars, listeners, hostVars, cmds>>

RemoveTabPairCall ==
    \E a \in StoreIds :
        /\ SetStore(removeTabPair(tabPairs, a))
        /\ last' = StoreCall("removeTabPair", a, Undefined, FALSE)
        /\ UNCHANGED <<sessionVars, listeners, hostVars, cmds>>

ClearPairingsCall ==
    /\ SetStore(clearPairings(tabPairs))
    /\ last' = StoreCall("clearPairings", Undefined, Undefined, FALSE)
    /\ UNCHANGED <<sessionVars, listeners, hostVars, cmds>>

NextStore ==
    \/ AddPairCall
    \/ RemoveTabPairCall
    \/ ClearPairingsCall

SpecStore == Init /\ [][NextStore]_vars

\* both lookup directions hold the pair a <-> b, whichever side a is on
PairIn(st, a, b) ==
    \/ Get(st.d, a) = b /\ Get(st.m, b) = a
    \/ Get(st.d, b) = a /\ Get(st.m, a) = b

-----------------------------------------------------------------------------
(* Claims *)

\* C1: right after addPair(a, b) with non-negative integers a and b, whatever the
\* store held before, getCorrespondingTab(a) = b, getCorrespondingTab(b) = a and
\* contains(a) and contains(b) are true.
C1_AddPairThenLookup ==
    (last.type = "addPair" /\ last.a \in StoreIds /\ last.b \in StoreIds) =>
        /\ getCorrespondingTab(tabPairs, last.a) = last.b
        /\ getCorrespondingTab(tabPairs, last.b) = last.a
        /\ contains(tabPairs, last.a)
        /\ contains(tabPairs, last.b)

\* C2: when the pair a <-> b is in the store, with a on either side, then after
\* removeTabPair(a) neither a nor b is contained in the store.
C2_RemoveTabPairRemovesBoth ==
    [][\A a \in StoreIds, b \in StoreIds :
         (/\ PairIn(tabPairs, a, b)
          /\ last' = StoreCall("removeTabPair", a, Undefined, FALSE))
         => (~contains(tabPairs', a) /\ ~contains(tabPairs', b))]_vars


-----------------------------------------------------------------------------
(* Claims about the synchronizer *)

TabIds == 1..MaxId

\* the partners the store gives id x, counting both lookup directions
Partners(st, x) ==
    ({Get(st.d, x), Get(st.m, x)} \ {Undefined})
    \cup {d \in DOMAIN st.d : st.d[d] = x}
    \cup {m \in DOMAIN st.m : st.m[m] = x}

\* id x has an entry in one of the two lookup directions
HasPair(st, x) == x \in DOMAIN st.d \cup DOMAIN st.m

\* the partner the store gives id x
PartnerOf(st, x) == IF x \in DOMAIN st.d THEN st.d[x] ELSE st.m[x]

StoreIsEmpty(st) == DOMAIN st.d = {} /\ DOMAIN st.m = {}

\* the initial values of the session state
SessionIsInitial(dw, mw, guard, focus) ==
    dw = Undefined /\ mw = Undefined /\ guard = FALSE /\ focus = Undefined

\* C3: in every reachable state the pairing relation is 1:1: no tab id has two
\* different partners, counting both lookup directions.
C3_OneToOne ==
    \A x \in TabIds : Cardinality(Partners(tabPairs, x)) <= 1

\* C4: the tab-created event of the mobile-window tab that the tab-created
\* listener itself created, to mirror a new tab of the desktop window, produces
\* no further tab creation, whenever the host delivers it.
C4_OneHop ==
    (/\ last.type = "tabs.onCreated"
     /\ last.by = "onCreated"
     /\ last.tab \in OpenTabs
     /\ last.win = mobileWindowId) => cmds = << >>

\* C5: at most one programmatic tab creation is outstanding at any time.
C5_OneCreationAtATime ==
    Cardinality(CreationsInProgress) <= 1

\* C6: a tab-removed event for a tab t paired with b commands the removal of b and
\* leaves neither t nor b contained in the store; a tab-removed event for an id
\* without a pair issues no command and changes no state.
C6_RemovedTabUnpairs ==
    [][last'.type = "tabs.onRemoved" =>
         /\ \A b \in TabIds :
              PairIn(tabPairs, last'.tab, b) =>
                 /\ cmds' = <<Cmd("tabs.remove", b, Undefined, NoUrl)>>
                 /\ ~contains(tabPairs', last'.tab)
                 /\ ~contains(tabPairs', b)
         /\ ~HasPair(tabPairs, last'.tab) =>
                 /\ cmds' = << >>
                 /\ UNCHANGED <<storeVars, sessionVars>>]_vars

\* C7: a window-removed event for the tracked mobile window empties the store and
\* resets the session state to its initial values, however many pairs there
\* were; a window-removed event for any other window changes neither.
C7_MobileWindowClosedResets ==
    [][last'.type = "windows.onRemoved" =>
         IF last'.win = mobileWindowId
         THEN /\ StoreIsEmpty(tabPairs')
              /\ SessionIsInitial(desktopWindowId', mobileWindowId',
                                  newTabBeingCreated', focusedWindowId')
         ELSE UNCHANGED <<storeVars, sessionVars>>]_vars

\* the window-removed event of the mobile window has just been handled in a
\* session of two pairs: one browser-action click started the session, the
\* listener for created tabs mirrored a second tab into the window that is now
\* closed (the tab-updated event of that mirror tab is still pending), no call
\* is outstanding, and the two tabs of the other window are still open, so no
\* tab-removed event had taken a pair out of the store before the reset
C7_Witness ==
    /\ last.type = "windows.onRemoved"
    /\ listeners = 1
    /\ calls = {}
    /\ mobileWindowId = Undefined
    /\ StoreIsEmpty(tabPairs)
    /\ TabsIn(tabs, last.win) = {}
    /\ Cardinality(OpenTabs) = 2
    /\ \E e \in pendingEvents :
          /\ e.type = "tabs.onUpdated" /\ e.by = "onCreated" /\ e.win = last.win
    /\ \E e1 \in pendingEvents, e2 \in pendingEvents :
          /\ e1.type = "tabs.onRemoved" /\ e1.by = "user" /\ e1.win = last.win
          /\ e2.type = "tabs.onRemoved" /\ e2.by = "user" /\ e2.win = last.win
          /\ e1.tab # e2.tab

\* C8: with scroll-lock "on" a message with a scroll percentage from a paired tab
\* is not relayed and one without is relayed; with scroll-lock not "on" a message
\* with a scroll percentage from a paired tab is relayed.
C8_ScrollLockRelay ==
    (last.type = "runtime.onMessage" /\ contains(tabPairs, last.tab)) =>
        /\ (last.scrollLock = "on" /\ last.scrollPercentage # Undefined) => cmds = << >>
        /\ (last.scrollLock = "on" /\ last.scrollPercentage = Undefined) => cmds # << >>
        /\ (last.scrollLock # "on" /\ last.scrollPercentage # Undefined) => cmds # << >>

\* the first half of C9: a tab-updated event with a URL commands the paired tab to
\* navigate to that URL exactly when the tab has a pair and the event's window is
\* the focused window
C9_CommandIff ==
    last.type = "tabs.onUpdated" =>
        cmds = IF HasPair(tabPairs, last.tab) /\ last.win = focusedWindowId
               THEN <<Cmd("tabs.update.url", PartnerOf(tabPairs, last.tab), Undefined, last.url)>>
               ELSE << >>

\* C9: a tab-updated event with a URL commands the paired tab to navigate exactly
\* when the tab has a pair and its window is the focused one, and the tab-updated
\* event that this command produces never commands a further navigation (here
\* in a session that a single trigger started, so that after the bootstrap only
\* window-focus-changed events set the focused window).
C9_NoNavigationEcho ==
    /\ C9_CommandIff
    /\ (last.type = "tabs.onUpdated" /\ last.by = "onUpdated" /\ listeners = 1)
          => cmds = << >>

\* C10: a tab-activated event commands the paired tab to become selected exactly
\* when the tab has a pair and the event's window is the tracked desktop or
\* mobile window, and changes neither the store nor the session state.
C10_ActivationMirrored ==
    [][last'.type = "tabs.onActivated" =>
         /\ cmds' = IF /\ HasPair(tabPairs, last'.tab)
                       /\ last'.win \in {desktopWindowId, mobileWindowId}
                    THEN <<Cmd("tabs.update.selected", PartnerOf(tabPairs, last'.tab),
                               Undefined, NoUrl)>>
                    ELSE << >>
         /\ UNCHANGED <<storeVars, sessionVars>>]_vars

\* a paired tab of a tracked window was activated and its pair commanded selected
C10_Witness ==
    /\ last.type = "tabs.onActivated"
    /\ HasPair(tabPairs, last.tab)
    /\ last.win \in {desktopWindowId, mobileWindowId}
    /\ cmds = <<Cmd("tabs.update.selected", PartnerOf(tabPairs, last.tab), Undefined, NoUrl)>>

\* C11: after a bootstrap in reuse mode from Idle (one browser-action click in a
\* window that was open from the start), the tab-created event of the mobile
\* window's first tab, whenever the host delivers it, causes no tab creation.
C11_BootstrapTabNotMirrored ==
    (/\ last.type = "tabs.onCreated"
     /\ last.by = "mirrorDesktopWindow"
     /\ listeners = 1
     /\ desktopWindowId \in WindowsOf(InitialTabs)) => cmds = << >>

\* id x is recorded on the mobile side of the store and not on its desktop side
MobileSideOnly(st, x) == x \in DOMAIN st.m /\ x \notin DOMAIN st.d

\* C12: every listener for outgoing requests answers a request with the device
\* profile's user-agent string exactly when the originating tab is recorded as
\* the mobile side of a pair and not as a desktop side; requests of desktop-side
\* tabs and of tabs in no pair keep their User-Agent.
C12_UserAgentRewritten ==
    last.type = "webRequest.onBeforeSendHeaders" =>
        /\ cmds # << >>
        /\ \A i \in 1..Len(cmds) :
              cmds[i] = Cmd("requestHeaders", last.tab, Undefined,
                            IF MobileSideOnly(tabPairs, last.tab)
                            THEN DeviceUA ELSE BrowserUA)

\* a request of a mobile-side tab went out with the device's user-agent string
\* while a desktop-side tab is open whose requests keep theirs
C12_Witness ==
    /\ last.type = "webRequest.onBeforeSendHeaders"
    /\ MobileSideOnly(tabPairs, last.tab)
    /\ cmds # << >>
    /\ cmds[1].url = DeviceUA
    /\ \E d \in OpenTabs : d \in DOMAIN keyedByDesktop /\ keyedByDesktop[d] = last.tab

\* C13: after any sequence of addPair, removeTabPair and clearPairings over
\* non-negative integer ids, isDesktopTab(x) is true exactly when x is recorded
\* as the desktop-side member of a pair.
C13_IsDesktopTabExact ==
    \A x \in StoreIds : isDesktopTab(tabPairs, x) <=> x \in DOMAIN keyedByDesktop

\* C14: addPair with a non-integer as either argument (or both) throws and
\* leaves both lookup directions of the store as they were.
C14_AddPairRejectsNonInteger ==
    [][(/\ last'.type = "addPair"
        /\ (last'.a \notin StoreIds \/ last'.b \notin StoreIds))
       => (last'.threw /\ UNCHANGED storeVars)]_vars

\* addPair has just thrown for an integer and a non-integer argument on a store
\* that holds a pair
C14_Witness ==
    /\ last.type = "addPair"
    /\ last.threw
    /\ last.a \in StoreIds
    /\ last.b = NonInteger
    /\ ~StoreIsEmpty(tabPairs)

\* C15: in every reachable state the two lookup directions of the store are
\* mutual inverses: the desktop-keyed map sends d to m exactly when the
\* mobile-keyed map sends m to d.
C15_MutualInverses ==
    \A d \in TabIds, m \in TabIds :
        Get(keyedByDesktop, d) = m <=> Get(keyedByMobile, m) = d

\* C16: the tab-removed event that the host fires for a tab the tab-removed
\* listener itself had removed issues no command.
C16_OneRemovalCommand ==
    (last.type = "tabs.onRemoved" /\ last.by = "onRemoved") => cmds = << >>

\* C17: whenever the session is Idle (the mobile window id is undefined) the
\* store is empty and the creation guard is false.
C17_IdleIsClean ==
    mobileWindowId = Undefined =>
        (StoreIsEmpty(tabPairs) /\ newTabBeingCreated = FALSE)

\* C18: when every host callback is eventually invoked, a set creation guard is
\* eventually cleared (as long as the host has identifiers left to hand out).
C18_GuardEventuallyCleared ==
    newTabBeingCreated ~> (newTabBeingCreated = FALSE \/ nextId > MaxId)

\* C19: after any number of browser-action clicks a content message is relayed
\* at most once and a request is handled by the header rewriter at most once.
C19_HandledOnce ==
    last.type \in {"runtime.onMessage", "webRequest.onBeforeSendHeaders"} =>
        Len(cmds) <= 1

\* a chrome.tabs.create call waits for an identifier the host no longer has
CreationOutOfIds == nextId > MaxId /\ \E c \in calls : c.op = "tabs.create"

\* the user has just created tab t in a tracked window of an Active session
UserTabCreated(t) ==
    /\ last.type = "tabs.onCreated"
    /\ last.by = "user"
    /\ last.tab = t
    /\ last.win \in {desktopWindowId, mobileWindowId}

\* C20: when every host callback is eventually invoked, a tab the user creates in
\* the desktop or the mobile window of an Active session is eventually paired,
\* unless it is closed, one of the two tracked windows is closed or the session
\* ends first (or the host has no identifier left for a mirror tab).
C20_UserTabEventuallyPaired ==
    \A t \in TabIds :
        UserTabCreated(t) ~>
            \/ HasPair(tabPairs, t)
            \/ t \notin OpenTabs
            \/ desktopWindowId \notin OpenWindows
            \/ mobileWindowId \notin OpenWindows
            \/ CreationOutOfIds

====
